---- MODULE Spec2Model ----
(***************************************************************************)
(* A model of the Gujarati transliteration service:                        *)
(*   - server.py: the process-wide ENGINES cache and get_engine, called    *)
(*     from the request threads of a threaded Flask server;                *)
(*   - gujarati_engine.py: GujaratiXlitEngine.__init__ with its resource   *)
(*     provisioning (_download_models, _download_dicts), and the           *)
(*     translit_word / translit_sentence pipeline (_pre_process,           *)
(*     _post_process, _rescore_results).                                   *)
(* Strings are sequences of one-character strings, so that strip, split,  *)
(* join and the removal of spaces are computed as the code computes them. *)
(***************************************************************************)
EXTENDS Integers, Sequences, FiniteSets, TLC

\* ------------------------------------------------------------------ bounds
\* calls of get_engine the request threads make in all
MaxCalls == 2

\* ------------------------------------------------------------- server state
VARIABLES
    ENGINES,    \* server.py ENGINES: direction -> engine id (NoEngine: no entry)
    heap,       \* the GujaratiXlitEngine objects constructed so far, by id
    fs,         \* per direction, the model directory on disk
    pc,         \* per thread, its position in get_engine / __init__
    tdir,       \* per thread, the direction argument of its current call
    self,       \* per thread, the engine under construction (self._rescore, self.word_prob_dict)
    exc,        \* per thread, the exception its last call raised ("none": it returned)
    ret,        \* per thread, the engine its last call returned (NoEngine: none)
    calls,      \* per thread, the get_engine calls it has made
    attempts,   \* per direction, the constructor invocations so far
    threaded,   \* app.run(threaded=...): do requests run on threads of their own?
    network,    \* "reliable": every dload call fetches the whole archive; "any": it
                \* may also fail, or fetch an archive that lacks files
    archive,    \* the layouts model.zip and dicts.zip are published in
    zip_ref,    \* per thread, the members still to extract of the archive it holds
                \* open (<<>>: none)
    dict_files  \* per thread, _download_dicts' dict_files, from the name the loop
                \* is at

srvVars == <<ENGINES, heap, fs, pc, tdir, self, exc, ret, calls, attempts, threaded,
             network, archive, zip_ref, dict_files>>

\* ----------------------------------------------------------- pipeline state
VARIABLES
    engine,         \* the engine the pipeline runs on (direction, _rescore, word_prob_dict)
    op,             \* the caller-facing operation under way: "none", "word", "sentence"
    phase,          \* "idle", "loop" (translit_sentence between two words), "done"
    arg,            \* the word or sentence passed in
    topk,           \* translit_word's topk
    output_str,     \* what translate() returned to the translit_word called directly
    result,         \* what the operation returned or raised
    words,          \* translit_sentence: sentence.strip().split()
    wordResults,    \* translit_sentence: `results` of every iteration so far
    transliterated, \* translit_sentence: the tokens appended so far
    oracleLog,      \* per translate() call of this operation, whether it returned
    processed,      \* what _pre_process returned to the last translit_word call
    handle,         \* what engine.transliterator is bound to
    total_translate_time, \* the Transliterator's attribute of that name, in clock ticks
    group,          \* _rescore_results called directly: the 'H' list of its one source
    ranked,         \* per call of it so far: the candidates returned for that source,
                    \* and total_translate_time at the call
    reply,          \* _post_process called directly: the lines of translation_str
    parsed,         \* its local res_dict, once built
    post            \* what it returned

rankVars == <<group, ranked, reply, parsed, post>>

xlVars == <<engine, op, phase, arg, topk, output_str, result, words, wordResults,
            transliterated, oracleLog, processed, handle, total_translate_time, rankVars>>

Threads == {"t1", "t2"}
Directions == {"en2gu", "gu2en"}
NoEngine == 0

\* ------------------------------------------------------- models directory
\* gujarati_engine.py 14-18: the files and folders of a models directory that
\* the constructor tests, writes or removes
MODEL_FILE == "transformer/indicxlit.pt"
CHARS_FOLDER == "corpus-bin"
DICTS_FOLDER == "word_prob_dicts"
\* DICT_FILE_FORMAT % GUJARATI_CODE, in DICTS_FOLDER
GujaratiDict == "word_prob_dicts/gu_word_prob_dict.json"
\* the dictionaries of the other languages, which dicts.zip holds as well
\* (gujarati_engine.py 176: "contains all languages")
OtherDicts == {"word_prob_dicts/bn_word_prob_dict.json",
               "word_prob_dicts/hi_word_prob_dict.json"}
\* a file of CHARS_FOLDER, which the Transliterator loads
CharsFile == "corpus-bin/dict.gu.txt"

Files == {MODEL_FILE, CharsFile, GujaratiDict} \cup OtherDicts

\* os.path.dirname of a file, relative to the models directory
Folder(f) ==
    IF f = MODEL_FILE THEN "transformer"
    ELSE IF f = CharsFile THEN CHARS_FOLDER
    ELSE DICTS_FOLDER

\* The store a dictionary file holds once loaded by ujson.load.
EmptyStore == "empty"
ShippedStore == "words"
\* A file that extractall has created and not written to the end: ujson.load
\* raises on such a dictionary.
PartialFile == "partial"
\* a file written to the end
WholeFile == "whole"

\* An archive is the sequence of its members, in the order extractall goes
\* through them. Folder entries, which an archive may hold besides, are left
\* out: extractall tests for the folder and creates it as it does for the
\* folder of a file (and raises FileExistsError as it does there).
NoZip == [there |-> FALSE, members |-> <<>>]
Zip(members) == [there |-> TRUE, members |-> members]

\* The layouts model.zip is published in: the model file and the corpus-bin
\* folder, in either order.
ModelLayouts == {<<MODEL_FILE, CharsFile>>, <<CharsFile, MODEL_FILE>>}
\* The layouts dicts.zip is published in: the dictionaries of all languages,
\* the Gujarati one before, between or after the others (the code does not
\* tell the other languages apart, so their order among themselves is fixed)
DictLayouts ==
    LET bn == "word_prob_dicts/bn_word_prob_dict.json"
        hi == "word_prob_dicts/hi_word_prob_dict.json"
    IN  {<<GujaratiDict, bn, hi>>, <<bn, GujaratiDict, hi>>, <<bn, hi, GujaratiDict>>}

\* What dload can leave at model.zip besides the published archive: an archive
\* that lacks the model file.
ModelArchives(layout) ==
    {layout.model, SelectSeq(layout.model, LAMBDA m : m # MODEL_FILE)}
\* What dload can leave at dicts.zip besides the published archive: one without
\* the Gujarati dictionary, or one without the word_prob_dicts folder.
DictArchives(layout) ==
    {layout.dicts, SelectSeq(layout.dicts, LAMBDA m : m # GujaratiDict), <<>>}

\* a models directory: the folders it holds, its files ("none": no such file,
\* else PartialFile or WholeFile), the downloaded archives, lang_list.txt
FreshDir ==
    [dirs |-> {}, files |-> [f \in Files |-> "none"],
     modelZip |-> NoZip, dictsZip |-> NoZip, langList |-> FALSE]

\* the model is installed, the dictionaries are not
ModelOnlyDir ==
    [dirs |-> {"transformer", CHARS_FOLDER},
     files |-> [f \in Files |-> IF f \in {MODEL_FILE, CharsFile} THEN WholeFile ELSE "none"],
     modelZip |-> NoZip, dictsZip |-> NoZip, langList |-> TRUE]

InstalledDir ==
    [dirs |-> {"transformer", CHARS_FOLDER, DICTS_FOLDER},
     files |-> [f \in Files |->
                   IF f \in {MODEL_FILE, CharsFile, GujaratiDict} THEN WholeFile ELSE "none"],
     modelZip |-> NoZip, dictsZip |-> NoZip, langList |-> TRUE]

InitialDirs == {FreshDir, ModelOnlyDir, InstalledDir}

\* the layout of the archives InstalledDir was installed from
InstalledLayout ==
    [model |-> <<MODEL_FILE, CharsFile>>,
     dicts |-> <<"word_prob_dicts/bn_word_prob_dict.json", GujaratiDict,
                 "word_prob_dicts/hi_word_prob_dict.json">>]

\* os.path.isfile, os.path.isdir in the models directory of direction d
IsFile(d, f) == fs[d].files[f] # "none"
IsDir(d, folder) == folder \in fs[d].dirs

NoSelf == [rescore |-> FALSE, dict |-> "unset"]

\* gujarati_engine.py 82-88: the store is loaded from the dictionary file, or
\* rescoring is switched off and the store is empty
DictLoad(dictFile) ==
    IF dictFile # "none"
    THEN [rescore |-> TRUE, dict |-> dictFile]
    ELSE [rescore |-> FALSE, dict |-> EmptyStore]

\* the server at rest, on models directories drawn from dirs, with the
\* archives published in a layout drawn from layouts
ServerAtRest(isThreaded, net, layouts, dirs) ==
    /\ threaded = isThreaded
    /\ network = net
    /\ archive \in layouts
    /\ ENGINES = [d \in Directions |-> NoEngine]
    /\ heap = <<>>
    /\ fs \in dirs
    /\ pc = [t \in Threads |-> "idle"]
    /\ tdir = [t \in Threads |-> "en2gu"]
    /\ self = [t \in Threads |-> NoSelf]
    /\ exc = [t \in Threads |-> "none"]
    /\ ret = [t \in Threads |-> NoEngine]
    /\ calls = [t \in Threads |-> 0]
    /\ attempts = [d \in Directions |-> 0]
    /\ zip_ref = [t \in Threads |-> <<>>]
    /\ dict_files = [t \in Threads |-> <<>>]

InitServer(isThreaded) ==
    ServerAtRest(isThreaded, "any", [model : ModelLayouts, dicts : DictLayouts],
                 [Directions -> InitialDirs])

\* ------------------------------------------------------------ get_engine
\* mutant: get_engine swallows the exception and caches the engine as far as
\* it was built
RaiseAndStore(t, msg) ==
    /\ pc' = [pc EXCEPT ![t] = "store"]
    /\ exc' = [exc EXCEPT ![t] = msg]
    /\ UNCHANGED <<ret, self>>

\* A statement raises: the exception leaves __init__ and get_engine (neither
\* catches anything), so the assignment to ENGINES[direction] is never run.
Raise(t, msg) ==
    /\ pc' = [pc EXCEPT ![t] = "idle"]
    /\ exc' = [exc EXCEPT ![t] = msg]
    /\ ret' = [ret EXCEPT ![t] = NoEngine]
    /\ self' = [self EXCEPT ![t] = NoSelf]

Goto(t, label) ==
    /\ pc' = [pc EXCEPT ![t] = label]
    /\ UNCHANGED <<exc, ret, self>>

\* the get_engine calls made so far
RECURSIVE SumCalls(_)
SumCalls(S) ==
    IF S = {} THEN 0
    ELSE LET t == CHOOSE u \in S : TRUE IN calls[t] + SumCalls(S \ {t})

\* a request calls get_engine(d); without threads a request is served only
\* when no other is under way
Call(t, d) ==
    /\ pc[t] = "idle"
    /\ SumCalls(Threads) < MaxCalls
    /\ threaded \/ \A u \in Threads \ {t} : pc[u] = "idle"
    /\ calls' = [calls EXCEPT ![t] = @ + 1]
    /\ tdir' = [tdir EXCEPT ![t] = d]
    /\ pc' = [pc EXCEPT ![t] = "get_engine"]
    /\ exc' = [exc EXCEPT ![t] = "none"]
    /\ ret' = [ret EXCEPT ![t] = NoEngine]
    /\ UNCHANGED <<ENGINES, heap, fs, self, attempts>>
    /\ UNCHANGED <<threaded, network, archive, zip_ref, dict_files, xlVars>>

\* mutant: get_engine constructs whatever the cache holds
GetEngineTestAlways(t) ==
    /\ pc[t] = "get_engine"
    /\ pc' = [pc EXCEPT ![t] = "download_models"]
    /\ self' = [self EXCEPT ![t] = [rescore |-> TRUE, dict |-> "unset"]]
    /\ attempts' = [attempts EXCEPT ![tdir[t]] = @ + 1]
    /\ UNCHANGED <<ENGINES, heap, fs, tdir, exc, ret, calls>>
    /\ UNCHANGED <<threaded, network, archive, zip_ref, dict_files, xlVars>>

\* server.py 23-25: if direction not in ENGINES, GujaratiXlitEngine(direction,
\* beam_width=4, rescore=True) is invoked (gujarati_engine.py 51-71).
GetEngineTest(t) ==
    /\ pc[t] = "get_engine"
    /\ IF ENGINES[tdir[t]] = NoEngine
       THEN /\ pc' = [pc EXCEPT ![t] = "download_models"]
            /\ self' = [self EXCEPT ![t] = [rescore |-> TRUE, dict |-> "unset"]]
            /\ attempts' = [attempts EXCEPT ![tdir[t]] = @ + 1]
       ELSE /\ pc' = [pc EXCEPT ![t] = "return"]
            /\ UNCHANGED <<self, attempts>>
    /\ UNCHANGED <<ENGINES, heap, fs, tdir, exc, ret, calls>>
    /\ UNCHANGED <<threaded, network, archive, zip_ref, dict_files, xlVars>>

\* ------------------------------------------------------------ extractall
\* zipfile's extractall, called at gujarati_engine.py 135 and 187, goes through
\* the members of the archive the thread has opened; for each it tests for the
\* folder, creates it if it found none, opens the file for writing and writes
\* it. Each of these is a call to the file system, and other threads run
\* between them.

\* the with block is left: the archive is closed
CloseZip(t) == zip_ref' = [zip_ref EXCEPT ![t] = <<>>]

\* another thread is writing file f of the directory thread t works on
OtherWriter(t, f) ==
    \E u \in Threads \ {t} :
        /\ tdir[u] = tdir[t]
        /\ pc[u] \in {"model_writing", "dicts_writing"}
        /\ Head(zip_ref[u]) = f

\* os.path.exists(upperdirs) for the member at hand
ExtractDirTest(t, create, mkdir) ==
    /\ Goto(t, IF IsDir(tdir[t], Folder(Head(zip_ref[t]))) THEN create ELSE mkdir)
    /\ UNCHANGED <<fs, zip_ref>>

\* os.makedirs(upperdirs) of the folder found missing, which raises
\* FileExistsError if the folder is there by now
ExtractMkdir(t, create) ==
    IF IsDir(tdir[t], Folder(Head(zip_ref[t])))
    THEN /\ Raise(t, "FileExistsError")
         /\ CloseZip(t)
         /\ UNCHANGED fs
    ELSE /\ fs' = [fs EXCEPT ![tdir[t]].dirs = @ \cup {Folder(Head(zip_ref[t]))}]
         /\ Goto(t, create)
         /\ UNCHANGED zip_ref

\* open(targetpath, "wb") creates the file, or empties the one that is there
ExtractCreate(t, writing) ==
    /\ fs' = [fs EXCEPT ![tdir[t]].files[Head(zip_ref[t])] = PartialFile]
    /\ Goto(t, writing)
    /\ UNCHANGED zip_ref

\* shutil.copyfileobj has written the member to the end. A file removed in the
\* meantime stays removed; one that another extraction is writing as well,
\* which emptied it on its way in, is whole or not. With the last member
\* extractall returns and the archive is closed
ExtractWrite(t, test, after) ==
    /\ LET f == Head(zip_ref[t])
       IN  \E written \in (IF ~IsFile(tdir[t], f) THEN {"none"}
                           ELSE IF OtherWriter(t, f) THEN {PartialFile, WholeFile}
                           ELSE {WholeFile}) :
              fs' = [fs EXCEPT ![tdir[t]].files[f] = written]
    /\ zip_ref' = [zip_ref EXCEPT ![t] = Tail(@)]
    /\ Goto(t, IF Tail(zip_ref[t]) = <<>> THEN after ELSE test)

\* -------------------------------------------------------- _download_models
\* gujarati_engine.py 124: is the model file or the corpus-bin folder missing?
DownloadModelsTest(t) ==
    /\ pc[t] = "download_models"
    /\ IF ~IsFile(tdir[t], MODEL_FILE) \/ ~IsDir(tdir[t], CHARS_FOLDER)
       THEN Goto(t, "model_dload")
       ELSE Goto(t, "lang_list")
    /\ UNCHANGED <<ENGINES, heap, fs, tdir, calls, attempts>>
    /\ UNCHANGED <<threaded, network, archive, zip_ref, dict_files, xlVars>>

\* what a dload call of model.zip / dicts.zip can fetch ("fail": nothing)
ModelFetched(net, layout) ==
    IF net = "reliable" THEN {Zip(layout.model)}
    ELSE {Zip(a) : a \in ModelArchives(layout)} \cup {NoZip}
DictsFetched(net, layout) ==
    IF net = "reliable" THEN {Zip(layout.dicts)}
    ELSE {Zip(a) : a \in DictArchives(layout)} \cup {NoZip}

\* gujarati_engine.py 128: dload writes model.zip, or fails and writes nothing
ModelDload(t) ==
    /\ pc[t] = "model_dload"
    /\ \E got \in ModelFetched(network, archive) :
          fs' = [fs EXCEPT ![tdir[t]].modelZip = IF got = NoZip THEN @ ELSE got]
    /\ Goto(t, "model_zipcheck")
    /\ UNCHANGED <<ENGINES, heap, tdir, calls, attempts>>
    /\ UNCHANGED <<threaded, network, archive, zip_ref, dict_files, xlVars>>

\* gujarati_engine.py 130-131
ModelZipCheck(t) ==
    /\ pc[t] = "model_zipcheck"
    /\ IF ~fs[tdir[t]].modelZip.there
       THEN Raise(t, "Unable to download model")
       ELSE Goto(t, "model_extract")
    /\ UNCHANGED <<ENGINES, heap, fs, tdir, calls, attempts>>
    /\ UNCHANGED <<threaded, network, archive, zip_ref, dict_files, xlVars>>

\* gujarati_engine.py 134: zipfile.ZipFile(model.zip, 'r'); opening an archive
\* that is no longer there raises FileNotFoundError. The thread keeps the
\* archive it opened, whatever becomes of model.zip
ModelExtract(t) ==
    /\ pc[t] = "model_extract"
    /\ IF ~fs[tdir[t]].modelZip.there
       THEN /\ Raise(t, "FileNotFoundError")
            /\ UNCHANGED zip_ref
       ELSE /\ zip_ref' = [zip_ref EXCEPT ![t] = fs[tdir[t]].modelZip.members]
            /\ Goto(t, "model_dir_test")
    /\ UNCHANGED <<ENGINES, heap, fs, tdir, calls, attempts>>
    /\ UNCHANGED <<threaded, network, archive, dict_files, xlVars>>

\* gujarati_engine.py 135, extractall: is the folder of the member at hand
\* (transformer/ or corpus-bin/) there?
ModelDirTest(t) ==
    /\ pc[t] = "model_dir_test"
    /\ ExtractDirTest(t, "model_create", "model_mkdir")
    /\ UNCHANGED <<ENGINES, heap, tdir, calls, attempts>>
    /\ UNCHANGED <<threaded, network, archive, dict_files, xlVars>>

\* gujarati_engine.py 135, extractall: os.makedirs of that folder
ModelMkdir(t) ==
    /\ pc[t] = "model_mkdir"
    /\ ExtractMkdir(t, "model_create")
    /\ UNCHANGED <<ENGINES, heap, tdir, calls, attempts>>
    /\ UNCHANGED <<threaded, network, archive, dict_files, xlVars>>

\* gujarati_engine.py 135, extractall: the member is opened for writing
ModelCreate(t) ==
    /\ pc[t] = "model_create"
    /\ ExtractCreate(t, "model_writing")
    /\ UNCHANGED <<ENGINES, heap, tdir, calls, attempts>>
    /\ UNCHANGED <<threaded, network, archive, dict_files, xlVars>>

\* gujarati_engine.py 134-135, extractall: the member is written; on to the
\* next member, or out of the with block
ModelWrite(t) ==
    /\ pc[t] = "model_writing"
    /\ ExtractWrite(t, "model_dir_test", "model_after")
    /\ UNCHANGED <<ENGINES, heap, tdir, calls, attempts>>
    /\ UNCHANGED <<threaded, network, archive, dict_files, xlVars>>

\* gujarati_engine.py 138-151: with the model file in place the archive is
\* removed (os.remove raises if it is gone), without it the constructor raises
ModelAfter(t) ==
    /\ pc[t] = "model_after"
    /\ IF IsFile(tdir[t], MODEL_FILE)
       THEN IF ~fs[tdir[t]].modelZip.there
            THEN /\ Raise(t, "FileNotFoundError")
                 /\ UNCHANGED fs
            ELSE /\ fs' = [fs EXCEPT ![tdir[t]].modelZip = NoZip]
                 /\ Goto(t, "lang_list")
       ELSE /\ Raise(t, "Model file not found after extraction")
            /\ UNCHANGED fs
    /\ UNCHANGED <<ENGINES, heap, tdir, calls, attempts>>
    /\ UNCHANGED <<threaded, network, archive, zip_ref, dict_files, xlVars>>

\* gujarati_engine.py 153-168 and 77: lang_list.txt is written if it is missing
\* or holds other languages; then the dictionaries, if rescoring is requested
LangList(t) ==
    /\ pc[t] = "lang_list"
    /\ fs' = [fs EXCEPT ![tdir[t]].langList = TRUE]
    /\ IF self[t].rescore
       THEN Goto(t, "download_dicts")
       ELSE /\ pc' = [pc EXCEPT ![t] = "transliterator"]
            /\ self' = [self EXCEPT ![t].dict = EmptyStore]
            /\ UNCHANGED <<exc, ret>>
    /\ UNCHANGED <<ENGINES, heap, tdir, calls, attempts>>
    /\ UNCHANGED <<threaded, network, archive, zip_ref, dict_files, xlVars>>

\* --------------------------------------------------------- _download_dicts
\* gujarati_engine.py 175: is the Gujarati dictionary file missing?
DownloadDictsTest(t) ==
    /\ pc[t] = "download_dicts"
    /\ IF ~IsFile(tdir[t], GujaratiDict)
       THEN Goto(t, "dicts_dload")
       ELSE Goto(t, "load_dict")
    /\ UNCHANGED <<ENGINES, heap, fs, tdir, calls, attempts>>
    /\ UNCHANGED <<threaded, network, archive, zip_ref, dict_files, xlVars>>

\* gujarati_engine.py 179: dload writes dicts.zip, or fails and writes nothing
DictsDload(t) ==
    /\ pc[t] = "dicts_dload"
    /\ \E got \in DictsFetched(network, archive) :
          fs' = [fs EXCEPT ![tdir[t]].dictsZip = IF got = NoZip THEN @ ELSE got]
    /\ Goto(t, "dicts_zipcheck")
    /\ UNCHANGED <<ENGINES, heap, tdir, calls, attempts>>
    /\ UNCHANGED <<threaded, network, archive, zip_ref, dict_files, xlVars>>

\* gujarati_engine.py 181-182
DictsZipCheck(t) ==
    /\ pc[t] = "dicts_zipcheck"
    /\ IF ~fs[tdir[t]].dictsZip.there
       THEN Raise(t, "Unable to download dictionaries")
       ELSE Goto(t, "dicts_extract")
    /\ UNCHANGED <<ENGINES, heap, fs, tdir, calls, attempts>>
    /\ UNCHANGED <<threaded, network, archive, zip_ref, dict_files, xlVars>>

\* gujarati_engine.py 186: zipfile.ZipFile(dicts.zip, 'r'); opening an archive
\* that is no longer there raises FileNotFoundError. The thread keeps the
\* archive it opened, whatever becomes of dicts.zip; an archive without the
\* word_prob_dicts folder leaves extractall nothing to do here
DictsExtract(t) ==
    /\ pc[t] = "dicts_extract"
    /\ IF ~fs[tdir[t]].dictsZip.there
       THEN /\ Raise(t, "FileNotFoundError")
            /\ UNCHANGED zip_ref
       ELSE /\ zip_ref' = [zip_ref EXCEPT ![t] = fs[tdir[t]].dictsZip.members]
            /\ Goto(t, IF fs[tdir[t]].dictsZip.members = <<>> THEN "dicts_remove"
                       ELSE "dicts_dir_test")
    /\ UNCHANGED <<ENGINES, heap, fs, tdir, calls, attempts>>
    /\ UNCHANGED <<threaded, network, archive, dict_files, xlVars>>

\* gujarati_engine.py 187, extractall: is word_prob_dicts/, the folder of the
\* dictionary at hand, there?
DictsDirTest(t) ==
    /\ pc[t] = "dicts_dir_test"
    /\ ExtractDirTest(t, "dicts_create", "dicts_mkdir")
    /\ UNCHANGED <<ENGINES, heap, tdir, calls, attempts>>
    /\ UNCHANGED <<threaded, network, archive, dict_files, xlVars>>

\* gujarati_engine.py 187, extractall: os.makedirs of that folder
DictsMkdir(t) ==
    /\ pc[t] = "dicts_mkdir"
    /\ ExtractMkdir(t, "dicts_create")
    /\ UNCHANGED <<ENGINES, heap, tdir, calls, attempts>>
    /\ UNCHANGED <<threaded, network, archive, dict_files, xlVars>>

\* gujarati_engine.py 187, extractall: the dictionary is opened for writing
DictsCreate(t) ==
    /\ pc[t] = "dicts_create"
    /\ ExtractCreate(t, "dicts_writing")
    /\ UNCHANGED <<ENGINES, heap, tdir, calls, attempts>>
    /\ UNCHANGED <<threaded, network, archive, dict_files, xlVars>>

\* gujarati_engine.py 186-187, extractall: the dictionary is written; on to the
\* next dictionary, or out of the with block
DictsWrite(t) ==
    /\ pc[t] = "dicts_writing"
    /\ ExtractWrite(t, "dicts_dir_test", "dicts_remove")
    /\ UNCHANGED <<ENGINES, heap, tdir, calls, attempts>>
    /\ UNCHANGED <<threaded, network, archive, dict_files, xlVars>>

\* gujarati_engine.py 190: os.remove(dicts.zip)
DictsRemove(t) ==
    /\ pc[t] = "dicts_remove"
    /\ IF ~fs[tdir[t]].dictsZip.there
       THEN /\ Raise(t, "FileNotFoundError")
            /\ UNCHANGED fs
       ELSE /\ fs' = [fs EXCEPT ![tdir[t]].dictsZip = NoZip]
            /\ Goto(t, "dicts_keep")
    /\ UNCHANGED <<ENGINES, heap, tdir, calls, attempts>>
    /\ UNCHANGED <<threaded, network, archive, zip_ref, dict_files, xlVars>>

\* the orders os.listdir can name the files of a set in: any
Listings(S) ==
    {order \in [1..Cardinality(S) -> S] : \A f \in S : \E i \in DOMAIN order : order[i] = f}

\* gujarati_engine.py 193-195, 208: without the folder the constructor raises;
\* with it, dict_files = os.listdir(dicts_folder) names the dictionaries that
\* are there at this moment, which the loop will go through
DictsKeep(t) ==
    /\ pc[t] = "dicts_keep"
    /\ IF IsDir(tdir[t], DICTS_FOLDER)
       THEN /\ \E order \in Listings({f \in {GujaratiDict} \cup OtherDicts :
                                           IsFile(tdir[t], f)}) :
                  dict_files' = [dict_files EXCEPT ![t] = order]
            /\ Goto(t, "dicts_isfile")
       ELSE /\ Raise(t, "Dictionaries folder not found after extraction")
            /\ UNCHANGED dict_files
    /\ UNCHANGED <<ENGINES, heap, fs, tdir, calls, attempts>>
    /\ UNCHANGED <<threaded, network, archive, zip_ref, xlVars>>

\* gujarati_engine.py 196-199 (and 203-206, which only print): the loop takes
\* the next name listed; the Gujarati dictionary is passed over, another
\* language's is tested with os.path.isfile(file_path) and passed over if it is
\* gone; after the last name the loop is left
DictsIsFile(t) ==
    /\ pc[t] = "dicts_isfile"
    /\ IF dict_files[t] = <<>>
       THEN /\ Goto(t, "load_dict")
            /\ UNCHANGED dict_files
       ELSE IF Head(dict_files[t]) # GujaratiDict /\ IsFile(tdir[t], Head(dict_files[t]))
            THEN /\ Goto(t, "dicts_rm")
                 /\ UNCHANGED dict_files
            ELSE /\ Goto(t, "dicts_isfile")
                 /\ dict_files' = [dict_files EXCEPT ![t] = Tail(@)]
    /\ UNCHANGED <<ENGINES, heap, fs, tdir, calls, attempts>>
    /\ UNCHANGED <<threaded, network, archive, zip_ref, xlVars>>

\* gujarati_engine.py 200: os.remove(file_path) of the one dictionary just
\* tested, which raises if the file is gone by now; then back to the loop
DictsRm(t) ==
    /\ pc[t] = "dicts_rm"
    /\ IF IsFile(tdir[t], Head(dict_files[t]))
       THEN /\ fs' = [fs EXCEPT ![tdir[t]].files[Head(dict_files[t])] = "none"]
            /\ dict_files' = [dict_files EXCEPT ![t] = Tail(@)]
            /\ Goto(t, "dicts_isfile")
       ELSE /\ Raise(t, "FileNotFoundError")
            /\ dict_files' = [dict_files EXCEPT ![t] = <<>>]
            /\ UNCHANGED fs
    /\ UNCHANGED <<ENGINES, heap, tdir, calls, attempts>>
    /\ UNCHANGED <<threaded, network, archive, zip_ref, xlVars>>

\* ---------------------------------------------------------------- __init__
\* gujarati_engine.py 80-88: the dictionary file, if there is one, is loaded;
\* ujson.load raises on a file that is not whole
LoadDict(t) ==
    /\ pc[t] = "load_dict"
    /\ LET dictFile == fs[tdir[t]].files[GujaratiDict]
       IN  IF dictFile = PartialFile
           THEN Raise(t, "JSONDecodeError")
           ELSE /\ self' = [self EXCEPT ![t] =
                               DictLoad(IF dictFile = "none" THEN "none" ELSE ShippedStore)]
                /\ pc' = [pc EXCEPT ![t] = "transliterator"]
                /\ UNCHANGED <<exc, ret>>
    /\ UNCHANGED <<ENGINES, heap, fs, tdir, calls, attempts>>
    /\ UNCHANGED <<threaded, network, archive, zip_ref, dict_files, xlVars>>

\* gujarati_engine.py 93-102, transliterator.py 69-172: the Transliterator loads
\* the checkpoint and the corpus-bin dictionaries, which must be there, and
\* whole
InitTransliterator(t) ==
    /\ pc[t] = "transliterator"
    /\ IF IsFile(tdir[t], MODEL_FILE) /\ IsFile(tdir[t], CharsFile)
       THEN IF \E f \in {MODEL_FILE, CharsFile} : fs[tdir[t]].files[f] = PartialFile
            THEN Raise(t, "checkpoint unreadable")
            ELSE Goto(t, "store")
       ELSE Raise(t, "checkpoint not found")
    /\ UNCHANGED <<ENGINES, heap, fs, tdir, calls, attempts>>
    /\ UNCHANGED <<threaded, network, archive, zip_ref, dict_files, xlVars>>

\* server.py 25: ENGINES[direction] = <the new engine>
Store(t) ==
    /\ pc[t] = "store"
    /\ heap' = Append(heap, [direction |-> tdir[t], rescore |-> self[t].rescore,
                             dict |-> self[t].dict])
    /\ ENGINES' = [ENGINES EXCEPT ![tdir[t]] = Len(heap) + 1]
    /\ pc' = [pc EXCEPT ![t] = "return"]
    /\ self' = [self EXCEPT ![t] = NoSelf]
    /\ UNCHANGED <<fs, tdir, exc, ret, calls, attempts>>
    /\ UNCHANGED <<threaded, network, archive, zip_ref, dict_files, xlVars>>

\* server.py 26: return ENGINES[direction]
Return(t) ==
    /\ pc[t] = "return"
    /\ ret' = [ret EXCEPT ![t] = ENGINES[tdir[t]]]
    /\ pc' = [pc EXCEPT ![t] = "idle"]
    /\ UNCHANGED <<ENGINES, heap, fs, tdir, self, exc, calls, attempts>>
    /\ UNCHANGED <<threaded, network, archive, zip_ref, dict_files, xlVars>>

\* ------------------------------------------------------------------ strings
\* A string is a sequence of one-character strings.
Space == " "

\* largest hypothesis count of one translate() reply
MaxHyps == 2
\* largest topk a caller passes
MaxTopK == 3
\* longest sentence passed to translit_sentence, in characters
MaxSentenceLen == 3

RECURSIVE LStrip(_)
LStrip(s) == IF s # <<>> /\ Head(s) = Space THEN LStrip(Tail(s)) ELSE s

RECURSIVE RStrip(_)
RStrip(s) ==
    IF s # <<>> /\ s[Len(s)] = Space THEN RStrip(SubSeq(s, 1, Len(s) - 1)) ELSE s

\* str.strip()
Strip(s) == LStrip(RStrip(s))

\* str.split(): the maximal runs of non-whitespace characters, in order
RECURSIVE SplitFrom(_, _)
SplitFrom(s, cur) ==
    IF s = <<>>
    THEN IF cur = <<>> THEN <<>> ELSE <<cur>>
    ELSE IF Head(s) = Space
         THEN (IF cur = <<>> THEN <<>> ELSE <<cur>>) \o SplitFrom(Tail(s), <<>>)
         ELSE SplitFrom(Tail(s), Append(cur, Head(s)))

Split(s) == SplitFrom(s, <<>>)

\* sep.join(parts)
RECURSIVE Join(_, _)
Join(parts, sep) ==
    IF parts = <<>> THEN <<>>
    ELSE IF Len(parts) = 1 THEN parts[1]
    ELSE parts[1] \o sep \o Join(Tail(parts), sep)

\* ''.join(word.split(' ')): every space is removed (gujarati_engine.py 237, 301)
Compact(s) == SelectSeq(s, LAMBDA c : c # Space)

\* str.lower() on the model's alphabet
LowerChar(c) == IF c = "A" THEN "a" ELSE IF c = "B" THEN "b" ELSE c
Lower(s) == [i \in 1..Len(s) |-> LowerChar(s[i])]

\* mutant: results[:topk + 1]
SliceInclusive(s, k) == SubSeq(s, 1, IF k + 1 < Len(s) THEN k + 1 ELSE Len(s))

\* results[:topk]
Slice(s, k) ==
    IF k >= 0
    THEN SubSeq(s, 1, IF k < Len(s) THEN k ELSE Len(s))
    ELSE SubSeq(s, 1, IF Len(s) + k > 0 THEN Len(s) + k ELSE 0)

\* list.sort(key=...) is stable: items are records with an integer field key
RECURSIVE InsertByKey(_, _)
InsertByKey(sorted, x) ==
    IF sorted = <<>> THEN <<x>>
    ELSE IF x.key < Head(sorted).key THEN <<x>> \o sorted
    ELSE <<Head(sorted)>> \o InsertByKey(Tail(sorted), x)

RECURSIVE SortByKey(_)
SortByKey(items) ==
    IF items = <<>> THEN <<>>
    ELSE InsertByKey(SortByKey(SubSeq(items, 1, Len(items) - 1)), items[Len(items)])

\* a dict as the sequence of its [k, v] items in insertion order: d[k] = v
\* keeps the place of a key that is already there
RECURSIVE DictPut(_, _, _)
DictPut(d, k, v) ==
    IF d = <<>> THEN <<[k |-> k, v |-> v]>>
    ELSE IF Head(d).k = k THEN <<[k |-> k, v |-> v]>> \o Tail(d)
    ELSE <<Head(d)>> \o DictPut(Tail(d), k, v)

DictHas(d, k) == \E i \in 1..Len(d) : d[i].k = k
DictGet(d, k) == d[CHOOSE i \in 1..Len(d) : d[i].k = k].v

RECURSIVE SumSeq(_)
SumSeq(s) == IF s = <<>> THEN 0 ELSE Head(s) + SumSeq(Tail(s))

RECURSIVE Concat(_)
Concat(ss) == IF ss = <<>> THEN <<>> ELSE Head(ss) \o Concat(Tail(ss))

\* ------------------------------------------------------- the decode oracle
\* One line of translate()'s reply, "<tag>-<idx>\t<score>\t<text>": the tag, the
\* index after the dash (idxOk: int() parses it), the score field of an H line
\* (a log2 probability; scoreOk: float() parses it) and the last field: the
\* source string of an S line, the space-tokenized hypothesis of an H line.

Line(tag, idx, idxOk, score, scoreOk, text) ==
    [tag |-> tag, idx |-> idx, idxOk |-> idxOk, score |-> score, scoreOk |-> scoreOk,
     text |-> text]
\* transliterator.py 252-253: "S-<id>\t<src_str>", src_str the input line as the
\* source dictionary renders its tokens
SLine(idx, src_str) == Line("S", idx, TRUE, 0, TRUE, src_str)
\* "S-\t<source>": the index is missing
SLineNoIndex(src_str) == Line("S", 0, FALSE, 0, TRUE, src_str)
HLine(idx, score, text) == Line("H", idx, TRUE, score, TRUE, text)
\* "H-<idx>\tabc\t<text>": the score is no number
HLineBadScore(idx, text) == Line("H", idx, TRUE, 0, FALSE, text)
\* the W- line translate() writes after every S- line (transliterator.py 254)
WLine(idx) == Line("W", idx, TRUE, 0, TRUE, <<>>)

RawScores == {-1, -2}
HypTexts == {<<>>, <<"a", " ", "b">>, <<"b">>}

\* the hypothesis lines a reply is made of: those of source 0 with every score
\* and text, one with a score that is no number, and lines tagged with a
\* source index the reply has no S line for
HLines ==
    {HLine(0, s, x) : s \in RawScores, x \in HypTexts}
        \cup {HLineBadScore(0, <<"b">>), HLine(1, -1, <<"b">>), HLineBadScore(1, <<"b">>)}

SeqsUpTo(S, n) == UNION {[1..k -> S] : k \in 0..n}

\* the S part of a reply: the S line of source 0 (with or without its W line),
\* none, or one whose index is missing
OracleOutputs(src_str) ==
    {<<SLine(0, src_str)>> \o hs : hs \in SeqsUpTo(HLines, MaxHyps)}
        \cup {<<SLine(0, src_str), WLine(0)>> \o hs : hs \in SeqsUpTo(HLines, MaxHyps)}
        \cup {hs \o <<SLine(0, src_str)>> : hs \in SeqsUpTo(HLines, MaxHyps)}
        \cup {<<SLineNoIndex(src_str)>> \o hs : hs \in SeqsUpTo(HLines, MaxHyps)}
        \cup SeqsUpTo(HLines, MaxHyps)

\* translate() returns its reply, or raises
Reply(lines) == [ok |-> TRUE, lines |-> lines]
OracleFails == [ok |-> FALSE, lines |-> <<>>]
OracleOutcomes(src_str) == {Reply(o) : o \in OracleOutputs(src_str)} \cup {OracleFails}

\* the D- and P- lines translate() writes after every H- line
DLine(idx, score, text) == Line("D", idx, TRUE, score, TRUE, text)
PLine(idx) == Line("P", idx, TRUE, 0, TRUE, <<>>)

\* transliterator.py 190: nbest=1, and translit_word passes none
DefaultNbest == 1

\* what the generator hands translate() for one input: its hypotheses
Hypos == SeqsUpTo([score : RawScores, text : HypTexts], MaxHyps)

\* mutant: translate() writes the lines of every hypothesis of the beam
TranslateAll(inputs, hypos, nbest) ==
    Concat([id \in 1..Len(inputs) |->
        <<SLine(id - 1, inputs[id]), WLine(id - 1)>> \o
            Concat([i \in 1..Len(hypos[id]) |->
                       <<HLine(id - 1, hypos[id][i].score, hypos[id][i].text),
                         DLine(id - 1, hypos[id][i].score, hypos[id][i].text),
                         PLine(id - 1)>>])])

\* transliterator.py 248-277: the reply translate() formats for the batch
\* inputs, hypos[id] the generator's hypotheses for inputs[id]: in the order of
\* the ids (from 0), per input its S- and W- lines, then per hypothesis of
\* hypos[:min(len(hypos), nbest)] the H-, D- and P- lines
Translate(inputs, hypos, nbest) ==
    Concat([id \in 1..Len(inputs) |->
        LET n == IF Len(hypos[id]) < nbest THEN Len(hypos[id]) ELSE nbest
        IN  <<SLine(id - 1, inputs[id]), WLine(id - 1)>> \o
                Concat([i \in 1..n |->
                           <<HLine(id - 1, hypos[id][i].score, hypos[id][i].text),
                             DLine(id - 1, hypos[id][i].score, hypos[id][i].text),
                             PLine(id - 1)>>])])

\* engine.transliterator is the Transliterator __init__ built (gujarati_engine.py
\* 93-102), or a double put in its place that answers with any reply
Handles == {"Transliterator", "double"}
\* gujarati_engine.py 325: self.transliterator.translate(processed), processed the
\* one source string _pre_process returned
TransliteratorOutcomes(processed_words) ==
    {Reply(Translate(processed_words, <<h>>, DefaultNbest)) : h \in Hypos}
        \cup {OracleFails}
Outcomes(h, processed_words) ==
    IF h = "Transliterator" THEN TransliteratorOutcomes(processed_words)
    ELSE OracleOutcomes(processed_words[1])

\* transliterator.py 223-227: translate_time = time.time() - translate_start_time,
\* in clock ticks
ElapsedTimes == {0, 1}

\* transliterator.py 228: self.total_translate_time += translate_time, run by
\* every translate() call of the Transliterator whose inference_step returned
TimeAfter(h, total, outcomes, translate_time) ==
    IF h = "Transliterator" /\ outcomes # <<>> /\ outcomes[1].ok
    THEN total + translate_time
    ELSE total
\* translate() was not called
NotCalled == [ok |-> TRUE, lines |-> <<>>]

\* ---------------------------------------------------------------- results
ListResult(l) == [kind |-> "list", val |-> l]
StrResult(s) == [kind |-> "str", val |-> s]
Raised(e) == [kind |-> "error", val |-> e]
NoResult == [kind |-> "none", val |-> <<>>]

\* --------------------------------------------------- word probability store
\* word_prob_dict.get(c, 0), in thousandths
WordProb(store, c) ==
    IF store = ShippedStore
    THEN (IF c = <<"b">> THEN 20 ELSE IF c = <<"a", "b">> THEN 1 ELSE 0)
    ELSE 0

\* bool(self.word_prob_dict)
StoreNonEmpty(store) == store = ShippedStore

\* pow(2, float(raw)) as a multiple of 2^-ScoreShift
ScoreShift == 2
RECURSIVE Pow2(_)
Pow2(n) == IF n <= 0 THEN 1 ELSE 2 * Pow2(n - 1)
ProbabilityScore(raw) == Pow2(raw + ScoreShift)

\* ------------------------------------------------------------- the engine
\* GujaratiXlitEngine(direction, rescore=rescoreArg) on a model directory whose
\* dictionary file holds dictFile ("none": no file) once provisioning is over
\* (gujarati_engine.py 51-53, 77-90)
NewEngine(direction, rescoreArg, dictFile) ==
    IF rescoreArg
    THEN [direction |-> direction,
          rescore |-> DictLoad(dictFile).rescore, dict |-> DictLoad(dictFile).dict]
    ELSE [direction |-> direction, rescore |-> FALSE, dict |-> EmptyStore]

EngineConfigs ==
    {NewEngine(d, r, f) : d \in Directions, r \in BOOLEAN,
                          f \in {"none", EmptyStore, ShippedStore}}

\* gujarati_engine.py 56-67
SrcScript(e) == IF e.direction = "en2gu" THEN "roman" ELSE "gujarati"

\* gujarati_engine.py 210-213: the indicnlp normalizer for "gu", which rewrites
\* the Gujarati danda U+0AE4 to the generic danda U+0964 and leaves the
\* characters of the model's alphabet alone
NormalizeChar(c) == IF c = "U+0AE4" THEN "U+0964" ELSE c
NormalizeGujarati(ws) ==
    [i \in 1..Len(ws) |-> [j \in 1..Len(ws[i]) |-> NormalizeChar(ws[i][j])]]

LangToken == <<"_", "_", "g", "u", "_", "_", " ">>

\* ' '.join(list(word))
SpaceOut(w) == Join([j \in 1..Len(w) |-> <<w[j]>>], <<Space>>)

\* mutant: the words are normalized whatever the source script
PreProcessNormalizeAlways(e, ws) ==
    LET normalized == NormalizeGujarati(ws)
    IN  [i \in 1..Len(normalized) |-> LangToken \o SpaceOut(Lower(normalized[i]))]

\* gujarati_engine.py 215-226
PreProcess(e, ws) ==
    LET normalized == IF SrcScript(e) = "gujarati" THEN NormalizeGujarati(ws) ELSE ws
    IN  [i \in 1..Len(normalized) |-> LangToken \o SpaceOut(Lower(normalized[i]))]

\* gujarati_engine.py 262-263: the lines holding 'S-', those holding 'H-'
ListS(lines) == SelectSeq(lines, LAMBDA l : l.tag = "S")
ListH(lines) == SelectSeq(lines, LAMBDA l : l.tag = "H")

\* mutant: the S and H lines stay in the order they were read
SortByIndexNone(lines) == lines

\* gujarati_engine.py 265-266: list.sort(key=int(index))
SortByIndex(lines) ==
    LET keyed == [i \in 1..Len(lines) |-> [key |-> lines[i].idx, line |-> lines[i]]]
        sorted == SortByKey(keyed)
    IN  [i \in 1..Len(sorted) |-> sorted[i].line]

\* mutant: the hypotheses of a group stay in the order the oracle emitted them
SortHypsEmitted(hyps) == hyps

\* gujarati_engine.py 280: H.sort(key=score, reverse=True), a stable sort
SortHyps(hyps) ==
    LET keyed == [i \in 1..Len(hyps) |-> [key |-> 0 - hyps[i].score, hyp |-> hyps[i]]]
        sorted == SortByKey(keyed)
    IN  [i \in 1..Len(sorted) |-> sorted[i].hyp]

\* gujarati_engine.py 274-280: the (text, score) pairs of the H lines of s_id
GroupHyps(sortedH, s_id) ==
    LET mine == SelectSeq(sortedH, LAMBDA h : h.idx = s_id)
    IN  SortHyps([i \in 1..Len(mine) |->
            [text |-> mine[i].text, score |-> ProbabilityScore(mine[i].score)]])

\* gujarati_engine.py 269-280: res_dict, from the sorted S and H lines
RECURSIVE ResDict(_, _, _)
ResDict(sortedS, sortedH, acc) ==
    IF sortedS = <<>> THEN acc
    ELSE ResDict(Tail(sortedS), sortedH,
                 DictPut(acc, Head(sortedS).idx,
                         [S |-> Head(sortedS).text,
                          H |-> GroupHyps(sortedH, Head(sortedS).idx)]))

\* gujarati_engine.py 283-288: result_dict, source string -> {text: score};
\* in a dict comprehension the last item of a repeated key stays
RECURSIVE HypScores(_, _)
HypScores(hyps, acc) ==
    IF hyps = <<>> THEN acc
    ELSE HypScores(Tail(hyps), DictPut(acc, Head(hyps).text, Head(hyps).score))

RECURSIVE ResultDict(_, _)
ResultDict(res_dict, acc) ==
    IF res_dict = <<>> THEN acc
    ELSE ResultDict(Tail(res_dict),
                    DictPut(acc, Head(res_dict).v.S, HypScores(Head(res_dict).v.H, <<>>)))

\* d.get(k, 0)
GetOrZero(d, k) == IF DictHas(d, k) THEN DictGet(d, k) ELSE 0

\* max(total, 1e-10) for a total that is 0 or at least one unit
Guarded(total) == IF total = 0 THEN 1 ELSE total

\* mutant: of the candidates with one compact form only the best is returned
RescoreGroupDedup(store, scores, hyps) ==
    LET clean == [i \in 1..Len(hyps) |-> Compact(hyps[i].text)]
        m == [i \in 1..Len(hyps) |-> GetOrZero(scores, hyps[i].text)]
        d == [i \in 1..Len(hyps) |-> WordProb(store, clean[i])]
        M == Guarded(SumSeq(m))
        D == Guarded(SumSeq(d))
        keyed == [i \in 1..Len(hyps) |->
                     [key |-> 0 - (9 * m[i] * D + d[i] * M), c |-> clean[i]]]
        sorted == SortByKey(keyed)
        first == SelectSeq([i \in 1..Len(sorted) |-> i],
                           LAMBDA i : \A j \in 1..(i - 1) : sorted[j].c # sorted[i].c)
    IN  [i \in 1..Len(first) |-> sorted[first[i]].c]

\* gujarati_engine.py 232-254, one source word: alpha = 0.9, and
\*   combined = alpha * m / max(M, 1e-10) + (1 - alpha) * d / max(D, 1e-10),
\* compared exactly as 9 * m * D' + 1 * d * M' over the common denominator
\* 10 * M' * D'; the candidates sorted by it, descending, stable
RescoreGroup(store, scores, hyps) ==
    LET clean == [i \in 1..Len(hyps) |-> Compact(hyps[i].text)]
        m == [i \in 1..Len(hyps) |-> GetOrZero(scores, hyps[i].text)]
        d == [i \in 1..Len(hyps) |-> WordProb(store, clean[i])]
        M == Guarded(SumSeq(m))
        D == Guarded(SumSeq(d))
        keyed == [i \in 1..Len(hyps) |->
                     [key |-> 0 - (9 * m[i] * D + d[i] * M), c |-> clean[i]]]
        sorted == SortByKey(keyed)
    IN  [i \in 1..Len(sorted) |-> sorted[i].c]

\* mutant: alpha weighs the dictionary, 1 - alpha the model
ScoredCandidatesSwapped(store, scores, hyps) ==
    LET clean == [i \in 1..Len(hyps) |-> Compact(hyps[i].text)]
        m == [i \in 1..Len(hyps) |-> GetOrZero(scores, hyps[i].text)]
        d == [i \in 1..Len(hyps) |-> WordProb(store, clean[i])]
        M == Guarded(SumSeq(m))
        D == Guarded(SumSeq(d))
    IN  [i \in 1..Len(hyps) |->
            [c |-> clean[i], m |-> m[i], d |-> d[i], M |-> M, D |-> D,
             combined |-> m[i] * D + 9 * d[i] * M]]

\* gujarati_engine.py 237-250, the values the loop computes for the i-th
\* candidate: its clean form, model_score = m / M and dict_prob = d / D as
\* fractions, and combined_score = combined / (10 * M * D)
ScoredCandidates(store, scores, hyps) ==
    LET clean == [i \in 1..Len(hyps) |-> Compact(hyps[i].text)]
        m == [i \in 1..Len(hyps) |-> GetOrZero(scores, hyps[i].text)]
        d == [i \in 1..Len(hyps) |-> WordProb(store, clean[i])]
        M == Guarded(SumSeq(m))
        D == Guarded(SumSeq(d))
    IN  [i \in 1..Len(hyps) |->
            [c |-> clean[i], m |-> m[i], d |-> d[i], M |-> M, D |-> D,
             combined |-> 9 * m[i] * D + d[i] * M]]

\* gujarati_engine.py 228-256: output_data, source string -> ranked candidates
RECURSIVE RescoreResults(_, _, _, _)
RescoreResults(store, res_dict, result_dict, acc) ==
    IF res_dict = <<>> THEN acc
    ELSE LET g == Head(res_dict).v
         IN  RescoreResults(store, Tail(res_dict), result_dict,
                 DictPut(acc, g.S, RescoreGroup(store, DictGet(result_dict, g.S), g.H)))

\* gujarati_engine.py 258-303; int() and float() raise ValueError
PostProcess(e, lines) ==
    LET list_s == ListS(lines)
        list_h == ListH(lines)
    IN  IF \E i \in 1..Len(list_s) : ~list_s[i].idxOk
        THEN Raised("ValueError")
        ELSE IF \E i \in 1..Len(list_h) : ~list_h[i].idxOk
        THEN Raised("ValueError")
        ELSE IF \E i \in 1..Len(list_s), j \in 1..Len(list_h) :
                    list_h[j].idx = list_s[i].idx /\ ~list_h[j].scoreOk
        THEN Raised("ValueError")
        ELSE LET res_dict == ResDict(SortByIndex(list_s), SortByIndex(list_h), <<>>)
                 result_dict == ResultDict(res_dict, <<>>)
                 output_dict == RescoreResults(e.dict, res_dict, result_dict, <<>>)
                 transliterated_words ==
                     IF e.rescore /\ StoreNonEmpty(e.dict)
                     THEN Concat([i \in 1..Len(output_dict) |-> output_dict[i].v])
                     ELSE Concat([i \in 1..Len(res_dict) |->
                              [j \in 1..Len(res_dict[i].v.H) |-> res_dict[i].v.H[j].text]])
             IN  ListResult([i \in 1..Len(transliterated_words) |->
                                Compact(transliterated_words[i])])

\* gujarati_engine.py 321-331, from the oracle's outcome on: a failure of
\* translate() leaves translit_word as it is, nothing catches it
Decode(e, k, outcome) ==
    IF ~outcome.ok THEN Raised("OracleError")
    ELSE LET results == PostProcess(e, outcome.lines)
         IN  IF results.kind = "error" THEN results
             ELSE ListResult(Slice(results.val, k))

\* mutant: translit_word without its guard on empty input
TranslitWordUnguarded(e, word, k, outcome) ==
    [result |-> Decode(e, k, outcome), sent |-> PreProcess(e, <<Strip(word)>>),
     oracle |-> <<outcome>>]

\* gujarati_engine.py 305-331: the value returned (or the exception raised),
\* what _pre_process made of the words it was called on, and the outcome of
\* every translate() call made
TranslitWord(e, word, k, outcome) ==
    IF word = <<>> \/ Strip(word) = <<>>
    THEN [result |-> ListResult(<<>>), sent |-> <<>>, oracle |-> <<>>]
    ELSE [result |-> Decode(e, k, outcome), sent |-> PreProcess(e, <<Strip(word)>>),
          oracle |-> <<outcome>>]

\* --------------------------------------------------------- pipeline actions
\* the words translit_word is called on directly
WordInputs ==
    {<<>>, <<" ">>, <<" ", " ">>, <<"a">>, <<" ", "B", "a", " ">>, <<"U+0AE4", "B">>}
TopKs == 0..MaxTopK
Alphabet == {"a", "B", " "}
SentenceInputs == SeqsUpTo(Alphabet, MaxSentenceLen)

InitPipeline ==
    /\ engine \in EngineConfigs
    /\ handle \in Handles
    /\ total_translate_time = 0
    /\ group = <<>>
    /\ ranked = <<>>
    /\ reply = <<>>
    /\ parsed = <<>>
    /\ post = NoResult
    /\ op = "none"
    /\ phase = "idle"
    /\ arg = <<>>
    /\ topk = 0
    /\ output_str = NotCalled
    /\ result = NoResult
    /\ words = <<>>
    /\ wordResults = <<>>
    /\ transliterated = <<>>
    /\ oracleLog = <<>>
    /\ processed = <<>>

\* the pipeline is not in use
PipelineIdle ==
    /\ engine = NewEngine("en2gu", TRUE, ShippedStore)
    /\ handle = "Transliterator"
    /\ total_translate_time = 0
    /\ group = <<>>
    /\ ranked = <<>>
    /\ reply = <<>>
    /\ parsed = <<>>
    /\ post = NoResult
    /\ op = "none"
    /\ phase = "idle"
    /\ arg = <<>>
    /\ topk = 0
    /\ output_str = NotCalled
    /\ result = NoResult
    /\ words = <<>>
    /\ wordResults = <<>>
    /\ transliterated = <<>>
    /\ oracleLog = <<>>
    /\ processed = <<>>

\* engine.translit_word(word, topk=k), the oracle answering with outcome
CallTranslitWord ==
    /\ phase = "idle"
    /\ \E word \in WordInputs, k \in TopKs, translate_time \in ElapsedTimes :
        \E outcome \in Outcomes(handle, PreProcess(engine, <<Strip(word)>>)) :
          LET r == TranslitWord(engine, word, k, outcome)
          IN  /\ result' = r.result
              /\ total_translate_time' =
                     TimeAfter(handle, total_translate_time, r.oracle, translate_time)
              /\ processed' = r.sent
              /\ oracleLog' = [i \in 1..Len(r.oracle) |-> r.oracle[i].ok]
              /\ output_str' = IF r.oracle = <<>> THEN NotCalled ELSE r.oracle[1]
              /\ arg' = word
              /\ topk' = k
    /\ op' = "word"
    /\ phase' = "done"
    /\ UNCHANGED <<engine, handle, words, wordResults, transliterated>>
    /\ UNCHANGED <<srvVars, rankVars>>

\* gujarati_engine.py 343-347: translit_sentence up to its loop
CallTranslitSentence ==
    /\ phase = "idle"
    /\ op' = "sentence"
    /\ \E sentence \in SentenceInputs :
          /\ arg' = sentence
          /\ IF sentence = <<>> \/ Strip(sentence) = <<>>
             THEN /\ result' = StrResult(<<>>)
                  /\ phase' = "done"
                  /\ words' = <<>>
             ELSE /\ result' = NoResult
                  /\ phase' = "loop"
                  /\ words' = Split(Strip(sentence))
    /\ UNCHANGED <<engine, handle, topk, output_str, wordResults, transliterated,
                   oracleLog, processed, total_translate_time>>
    /\ UNCHANGED <<srvVars, rankVars>>

\* Inside translit_sentence the oracle's outcome matters only through what
\* translit_word(word, topk=1) makes of it: per engine configuration, handle
\* and word, one outcome stands for all those that are decoded alike.
SentenceWords == {w \in SeqsUpTo(Alphabet \ {Space}, MaxSentenceLen) : w # <<>>}

Top1Decoded ==
    {<<<<e, h, w>>, {<<Decode(e, 1, o), o>> : o \in Outcomes(h, PreProcess(e, <<w>>))}>> :
         e \in EngineConfigs, h \in Handles, w \in SentenceWords}

Top1Table ==
    {<<p[1], {(CHOOSE q \in p[2] : q[1] = d /\ q[2].ok = okay)[2] :
                  <<d, okay>> \in {<<q[1], q[2].ok>> : q \in p[2]}}>> : p \in Top1Decoded}

Top1Representatives(e, h, w) == (CHOOSE p \in Top1Table : p[1] = <<e, h, w>>)[2]

\* mutant: a word whose translit_word raises falls back to the original word
SentenceWordFallback ==
    /\ phase = "loop"
    /\ Len(wordResults) < Len(words)
    /\ \E outcome \in Top1Representatives(engine, handle, words[Len(wordResults) + 1]),
          translate_time \in ElapsedTimes :
          LET word == words[Len(wordResults) + 1]
              r == TranslitWord(engine, word, 1, outcome)
              results == IF r.result.kind = "error" THEN <<>> ELSE r.result.val
              tokens == Append(transliterated,
                               IF results # <<>> THEN results[1] ELSE word)
          IN  /\ oracleLog' = oracleLog \o [i \in 1..Len(r.oracle) |-> r.oracle[i].ok]
              /\ total_translate_time' =
                     TimeAfter(handle, total_translate_time, r.oracle, translate_time)
              /\ processed' = r.sent
              /\ wordResults' = Append(wordResults, results)
              /\ transliterated' = tokens
              /\ IF Len(tokens) = Len(words)
                 THEN /\ result' = StrResult(Join(tokens, <<Space>>))
                      /\ phase' = "done"
                 ELSE UNCHANGED <<result, phase>>
    /\ UNCHANGED <<engine, handle, op, arg, topk, output_str, words>>
    /\ UNCHANGED <<srvVars, rankVars>>

\* mutant: a word translit_word returns no candidate for is left out
SentenceWordDrop ==
    /\ phase = "loop"
    /\ Len(wordResults) < Len(words)
    /\ \E outcome \in Top1Representatives(engine, handle, words[Len(wordResults) + 1]),
          translate_time \in ElapsedTimes :
          LET word == words[Len(wordResults) + 1]
              r == TranslitWord(engine, word, 1, outcome)
          IN  /\ oracleLog' = oracleLog \o [i \in 1..Len(r.oracle) |-> r.oracle[i].ok]
              /\ total_translate_time' =
                     TimeAfter(handle, total_translate_time, r.oracle, translate_time)
              /\ processed' = r.sent
              /\ IF r.result.kind = "error"
                 THEN /\ result' = r.result
                      /\ phase' = "done"
                      /\ UNCHANGED <<wordResults, transliterated>>
                 ELSE LET results == r.result.val
                          tokens == IF results # <<>>
                                    THEN Append(transliterated, results[1])
                                    ELSE transliterated
                      IN  /\ wordResults' = Append(wordResults, results)
                          /\ transliterated' = tokens
                          /\ IF Len(wordResults) + 1 = Len(words)
                             THEN /\ result' = StrResult(Join(tokens, <<Space>>))
                                  /\ phase' = "done"
                             ELSE UNCHANGED <<result, phase>>
    /\ UNCHANGED <<engine, handle, op, arg, topk, output_str, words>>
    /\ UNCHANGED <<srvVars, rankVars>>

\* gujarati_engine.py 349-356: one iteration of the loop, the oracle answering
\* with outcome, and the return after the last one; an exception raised by
\* translit_word leaves translit_sentence
SentenceWord ==
    /\ phase = "loop"
    /\ Len(wordResults) < Len(words)
    /\ \E outcome \in Top1Representatives(engine, handle, words[Len(wordResults) + 1]),
          translate_time \in ElapsedTimes :
          LET word == words[Len(wordResults) + 1]
              r == TranslitWord(engine, word, 1, outcome)
          IN  /\ oracleLog' = oracleLog \o [i \in 1..Len(r.oracle) |-> r.oracle[i].ok]
              /\ total_translate_time' =
                     TimeAfter(handle, total_translate_time, r.oracle, translate_time)
              /\ processed' = r.sent
              /\ IF r.result.kind = "error"
                 THEN /\ result' = r.result
                      /\ phase' = "done"
                      /\ UNCHANGED <<wordResults, transliterated>>
                 ELSE LET results == r.result.val
                          tokens == Append(transliterated,
                                           IF results # <<>> THEN results[1] ELSE word)
                      IN  /\ wordResults' = Append(wordResults, results)
                          /\ transliterated' = tokens
                          /\ IF Len(tokens) = Len(words)
                             THEN /\ result' = StrResult(Join(tokens, <<Space>>))
                                  /\ phase' = "done"
                             ELSE UNCHANGED <<result, phase>>
    /\ UNCHANGED <<engine, handle, op, arg, topk, output_str, words>>
    /\ UNCHANGED <<srvVars, rankVars>>

\* ----------------------------------------------- the ranker, called directly
\* most calls of _rescore_results on one group
MaxRankCalls == 2
\* most hypotheses of a group _rescore_results is called on
MaxGroup == 3
\* most clock ticks translate() calls of other callers add up to
MaxTotalTime == 2

\* hypothesis texts and probability scores (in thousandths) of the groups
\* _rescore_results is called on
RankTexts == {<<"a", " ", "b">>, <<"a", "b">>, <<"b">>, <<"a">>, <<"c">>}
RankScores == {707, 800, 933}

\* gujarati_engine.py 280: res_dict[s_id]['H'] is sorted by score, descending,
\* before _rescore_results sees it
RankGroups ==
    {g \in SeqsUpTo([text : RankTexts, score : RankScores], MaxGroup) :
        \A i, j \in 1..Len(g) : i < j => g[i].score >= g[j].score}

\* the source string of the group _rescore_results is called on: that of the
\* word "a"
RankSource == LangToken \o <<"a">>

\* res_dict and result_dict as _post_process builds them for one source
\* (gujarati_engine.py 269-288)
GroupResDict(g) == <<[k |-> 0, v |-> [S |-> RankSource, H |-> g]]>>

\* self._rescore_results(res_dict, result_dict)[src_word] for that source
Rank(store, g) ==
    DictGet(RescoreResults(store, GroupResDict(g), ResultDict(GroupResDict(g), <<>>), <<>>),
            RankSource)

\* gujarati_engine.py 292-293: _rescore_results is called on an engine whose
\* rescoring is on and whose store is not empty; the first call draws the
\* group, the later ones are given the same group again
CallRescoreResults ==
    /\ phase = "idle"
    /\ engine.rescore /\ StoreNonEmpty(engine.dict)
    /\ Len(ranked) < MaxRankCalls
    /\ \E g \in (IF ranked = <<>> THEN RankGroups ELSE {group}) :
          /\ group' = g
          /\ ranked' = Append(ranked, [candidates |-> Rank(engine.dict, g),
                                       at |-> total_translate_time])
    /\ UNCHANGED <<engine, op, phase, arg, topk, output_str, result, words, wordResults,
                   transliterated, oracleLog, processed, handle, total_translate_time>>
    /\ UNCHANGED <<srvVars, reply, parsed, post>>

\* another caller's translate() on the engine's Transliterator
\* (transliterator.py 223-228)
CallTranslate ==
    /\ phase = "idle"
    /\ handle = "Transliterator"
    /\ total_translate_time < MaxTotalTime
    /\ \E translate_time \in ElapsedTimes :
          total_translate_time' = total_translate_time + translate_time
    /\ UNCHANGED <<engine, op, phase, arg, topk, output_str, result, words, wordResults,
                   transliterated, oracleLog, processed, handle, rankVars>>
    /\ UNCHANGED srvVars

\* most lines of a reply _post_process is called on directly
MaxReplyLines == 4

\* the source strings of the words "a" and "b"
ParseSources == {LangToken \o <<"a">>, LangToken \o <<"b">>}

\* the lines of those replies, as translate() writes them for a batch of two
\* words, the same word twice or two words: the S lines of sources 0 and 1 and
\* H lines of either
ParseLines ==
    {SLine(0, LangToken \o <<"a">>), HLine(1, -1, <<"b">>)}
        \cup {SLine(1, src) : src \in ParseSources}
        \cup {HLine(0, s, x) : s \in RawScores,
                                x \in {<<"a", " ", "b">>, <<"a", "b">>, <<"b">>}}

\* gujarati_engine.py 260-280: res_dict, from the lines of translation_str
ParseGroups(lines) == ResDict(SortByIndex(ListS(lines)), SortByIndex(ListH(lines)), <<>>)

\* self._post_process(translation_str), the lines in any order
CallPostProcess ==
    /\ phase = "idle"
    /\ post = NoResult
    /\ \E lines \in SeqsUpTo(ParseLines, MaxReplyLines) :
          /\ reply' = lines
          /\ parsed' = ParseGroups(lines)
          /\ post' = PostProcess(engine, lines)
    /\ UNCHANGED <<engine, op, phase, arg, topk, output_str, result, words, wordResults,
                   transliterated, oracleLog, processed, handle, total_translate_time>>
    /\ UNCHANGED <<srvVars, group, ranked>>

NextRank ==
    \/ CallRescoreResults
    \/ CallTranslate

NextPipeline ==
    \/ CallTranslitWord
    \/ CallTranslitSentence
    \/ SentenceWord

\* ------------------------------------------------------- specifications
\* one step of thread t inside get_engine
Step(t) ==
    \/ GetEngineTest(t)
    \/ DownloadModelsTest(t)
    \/ ModelDload(t)
    \/ ModelZipCheck(t)
    \/ ModelExtract(t)
    \/ ModelDirTest(t)
    \/ ModelMkdir(t)
    \/ ModelCreate(t)
    \/ ModelWrite(t)
    \/ ModelAfter(t)
    \/ LangList(t)
    \/ DownloadDictsTest(t)
    \/ DictsDload(t)
    \/ DictsZipCheck(t)
    \/ DictsExtract(t)
    \/ DictsDirTest(t)
    \/ DictsMkdir(t)
    \/ DictsCreate(t)
    \/ DictsWrite(t)
    \/ DictsRemove(t)
    \/ DictsKeep(t)
    \/ DictsIsFile(t)
    \/ DictsRm(t)
    \/ LoadDict(t)
    \/ InitTransliterator(t)
    \/ Store(t)
    \/ Return(t)

vars == <<srvVars, xlVars>>

\* server.py 265-270, app.run(threaded=True): every request runs on a thread of
\* its own, and the threads interleave at every statement
Next ==
    \E t \in Threads :
        \/ \E d \in Directions : Call(t, d)
        \/ Step(t)

\* the server as it is run, with the pipeline left alone
Init ==
    /\ InitServer(TRUE)
    /\ PipelineIdle

Spec == Init /\ [][Next]_vars

\* get_engine called from one thread of control, one call after another (as
\* the --preload calls of server.py 243-248 are)
InitSeq ==
    /\ InitServer(FALSE)
    /\ PipelineIdle

SpecSeq == InitSeq /\ [][Next]_vars

\* the threaded server started on model directories that hold nothing yet, with
\* every download succeeding
InitProvision ==
    /\ ServerAtRest(TRUE, "reliable", [model : ModelLayouts, dicts : DictLayouts],
                    {[d \in Directions |-> FreshDir]})
    /\ PipelineIdle

SpecProvision == InitProvision /\ [][Next]_vars

\* one caller-facing operation on one engine, over every input, engine
\* configuration and oracle outcome, with the server at rest
InitXlit ==
    /\ ServerAtRest(TRUE, "any", {InstalledLayout}, {[d \in Directions |-> InstalledDir]})
    /\ InitPipeline

SpecXlit == InitXlit /\ [][NextPipeline]_vars

\* the ranker called directly on every group, on every engine configuration,
\* between translate() calls of other callers
InitRank ==
    /\ ServerAtRest(TRUE, "any", {InstalledLayout}, {[d \in Directions |-> InstalledDir]})
    /\ InitPipeline

SpecRank == InitRank /\ [][NextRank]_vars

\* the parser called directly on an engine at rest
SpecParse == InitRank /\ [][CallPostProcess]_vars

\* ------------------------------------------------------------------ claims
\* the engines constructed for direction d
Built(d) == {i \in 1..Len(heap) : heap[i].direction = d}

\* a call of thread t has returned or raised
Completed(t) == pc[t] = "idle" /\ calls[t] > 0

\* C1: when several threads call get_engine(direction) concurrently for a
\* direction that is not cached yet, the engine is constructed exactly once and
\* every caller is returned the same instance.
C1_OneConstructionSharedInstance ==
    /\ \A d \in Directions : Cardinality(Built(d)) <= 1
    /\ \A t, u \in Threads :
          (ret[t] # NoEngine /\ ret[u] # NoEngine /\ tdir[t] = tdir[u]) => ret[t] = ret[u]

\* C2: with get_engine calls made one after another, a direction's engine is
\* constructed at most once, every call that returns gives the one instance the
\* cache holds for its direction, and an entry once stored is never removed or
\* replaced, nor is the constructor invoked again for its direction.
C2_SequentialCacheReuse ==
    /\ [](/\ \A d \in Directions :
                /\ Cardinality(Built(d)) <= 1
                /\ ENGINES[d] # NoEngine => ENGINES[d] \in Built(d)
          /\ \A t \in Threads :
                ret[t] # NoEngine => ret[t] = ENGINES[tdir[t]])
    /\ [][\A d \in Directions :
             ENGINES[d] # NoEngine =>
                 ENGINES'[d] = ENGINES[d] /\ attempts'[d] = attempts[d]]_vars

\* two calls for one direction, one after the other, returned the same engine,
\* constructed once
C2_Witness ==
    \E t, u \in Threads :
        /\ t # u
        /\ Completed(t) /\ Completed(u)
        /\ tdir[t] = tdir[u]
        /\ ret[t] # NoEngine /\ ret[t] = ret[u]
        /\ attempts[tdir[t]] = 1

\* what _download_dicts raises
DictErrors ==
    {"Unable to download dictionaries", "Dictionaries folder not found after extraction"}

\* C4: if the probability dictionary cannot be provisioned, construction with
\* rescore requested still succeeds, with rescoring disabled and an empty store;
\* it never raises because of the dictionary.
C4_DictionaryNeverFatal ==
    /\ \A t \in Threads : exc[t] \notin DictErrors
    /\ \A i \in 1..Len(heap) : ~heap[i].rescore => heap[i].dict = EmptyStore

\* C5: a call of get_engine that ends with the model artifact still missing
\* (it could not be downloaded, or was absent after extraction) ended with an
\* error at its caller and the cache holds no entry for the direction; and a
\* call that finds no entry for its direction invokes the constructor.
C5_ModelFailurePropagates ==
    /\ [](\A t \in Threads :
            (Completed(t) /\ ~IsFile(tdir[t], MODEL_FILE)) =>
                /\ exc[t] # "none"
                /\ ret[t] = NoEngine
                /\ ENGINES[tdir[t]] = NoEngine)
    /\ [][\A t \in Threads :
             (pc[t] = "get_engine" /\ pc'[t] # "get_engine"
                  /\ ENGINES[tdir[t]] = NoEngine) =>
                 attempts'[tdir[t]] = attempts[tdir[t]] + 1]_vars

\* a call failed on the model artifact, the cache has no entry, and a later
\* call for the direction is constructing again
C5_Witness ==
    \E t, u \in Threads :
        /\ t # u
        /\ Completed(t)
        /\ exc[t] \in {"Unable to download model", "Model file not found after extraction"}
        /\ ~IsFile(tdir[t], MODEL_FILE)
        /\ tdir[u] = tdir[t]
        /\ pc[u] = "download_models"
        /\ attempts[tdir[t]] = 2
        /\ ENGINES[tdir[t]] = NoEngine

\* str.split() counts
WordCount(s) == Len(Split(s))

\* empty or whitespace-only
Blank(s) == \A i \in 1..Len(s) : s[i] = Space

WordDone == op = "word" /\ phase = "done"
SentenceDone == op = "sentence" /\ phase = "done"

\* C3: translit_sentence never drops a token: the returned string has as many
\* whitespace-separated words as the sentence passed in.
C3_SentenceKeepsWordCount ==
    (SentenceDone /\ result.kind = "str") => WordCount(result.val) = WordCount(arg)

\* the H lines of the reply for source index 0, the word passed in, as emitted
HypsOfWord(lines) == SelectSeq(lines, LAMBDA l : l.tag = "H" /\ l.idxOk /\ l.idx = 0)
\* the reply holds the S line of source index 0
HasSource(lines) == \E i \in 1..Len(lines) : lines[i].tag = "S" /\ lines[i].idxOk /\ lines[i].idx = 0

Min(a, b) == IF a < b THEN a ELSE b

\* C6: for topk >= 1 the list translit_word returns is no longer than topk nor
\* than the number of H lines the oracle returned for the word; with the word's
\* S line in the reply and no more than topk hypotheses, all are returned.
C6_AtMostTopK ==
    (WordDone /\ result.kind = "list" /\ topk >= 1) =>
        LET n == Len(HypsOfWord(output_str.lines))
        IN  /\ Len(result.val) <= topk
            /\ Len(result.val) <= n
            /\ HasSource(output_str.lines) => Len(result.val) = Min(topk, n)

\* fewer hypotheses than topk: all of them are returned
C6_Witness ==
    /\ WordDone
    /\ handle = "Transliterator"
    /\ result.kind = "list"
    /\ topk = 3
    /\ Len(HypsOfWord(output_str.lines)) = 1
    /\ Len(result.val) = 1

\* C7: for an empty or whitespace-only input translit_word returns the empty
\* list and translit_sentence the empty string, whatever topk, and neither
\* _pre_process nor the oracle is called.
C7_BlankInput ==
    (phase = "done" /\ Blank(arg)) =>
        /\ op = "word" => result.kind = "list" /\ result.val = <<>>
        /\ op = "sentence" => result.kind = "str" /\ result.val = <<>>
        /\ oracleLog = <<>>
        /\ processed = <<>>

\* translit_word was called on a whitespace-only word with topk = 3
C7_Witness == WordDone /\ arg = <<" ", " ">> /\ topk = 3 /\ result.kind = "list"

\* rescoring is disabled: the flag is off or the store is empty
RescoringDisabled(e) == ~e.rescore \/ ~StoreNonEmpty(e.dict)

IndexOrders(n) == {p \in [1..n -> 1..n] : \A i, j \in 1..n : i # j => p[i] # p[j]}

\* C8: with rescoring disabled the list translit_word returns is the word's
\* hypotheses in descending raw score order (equal scores in the order
\* emitted), as compact texts, truncated to topk.
C8_RawOrderWhenDisabled ==
    (WordDone /\ result.kind = "list" /\ RescoringDisabled(engine)
         /\ HasSource(output_str.lines)) =>
        LET hs == HypsOfWord(output_str.lines)
            n == Len(hs)
        IN  /\ Len(result.val) = Min(topk, n)
            /\ \E p \in IndexOrders(n) :
                  /\ \A i, j \in 1..n : i < j =>
                        \/ hs[p[i]].score > hs[p[j]].score
                        \/ hs[p[i]].score = hs[p[j]].score /\ p[i] < p[j]
                  /\ \A i \in 1..Len(result.val) : result.val[i] = Compact(hs[p[i]].text)

\* rescoring disabled, and the better hypothesis was emitted second
C8_Witness ==
    /\ WordDone
    /\ RescoringDisabled(engine)
    /\ result.kind = "list"
    /\ arg = <<"a">>
    /\ output_str.lines = <<SLine(0, LangToken \o <<"a">>), HLine(0, -2, <<"b">>),
                            HLine(0, -1, <<"a", " ", "b">>)>>
    /\ result.val = <<<<"a", "b">>, <<"b">>>>

\* a score field that is no number, or a missing index
Malformed(lines) ==
    \E i \in 1..Len(lines) :
        \/ lines[i].tag = "H" /\ ~lines[i].scoreOk
        \/ lines[i].tag \in {"S", "H"} /\ ~lines[i].idxOk

\* C9: if the oracle's output is malformed, translit_word fails with an error
\* at its caller and never returns a candidate list.
C9_MalformedOutputRaises ==
    (WordDone /\ oracleLog = <<TRUE>> /\ Malformed(output_str.lines)) =>
        result.kind = "error"

\* C10: the oracle is called at most once per translit_word call, and once a
\* call of it has failed no other follows: the operation, translit_word or
\* translit_sentence, has ended with the oracle's error instead of a result
\* (no retry, no fall-back to the original word).
C10_OracleFailurePropagates ==
    /\ op = "word" => Len(oracleLog) <= 1
    /\ op = "sentence" =>
          Len(oracleLog) <= Len(wordResults) + (IF result.kind = "error" THEN 1 ELSE 0)
    /\ \A i \in 1..Len(oracleLog) :
          ~oracleLog[i] =>
              /\ i = Len(oracleLog)
              /\ phase = "done"
              /\ result.kind = "error"
              /\ result.val = "OracleError"

\* translit_sentence on two words, the oracle failing on the second
C10_Witness ==
    /\ SentenceDone
    /\ Len(words) = 2
    /\ Len(wordResults) = 1
    /\ oracleLog = <<TRUE, FALSE>>
    /\ result.kind = "error"

\* C11: translit_word and translit_sentence leave the engine as it was built:
\* no step of a call changes the engine's direction, rescoring flag or store,
\* what its transliterator attribute is bound to, or state that handle holds.
C11_CallsLeaveEngineUnchanged ==
    [][/\ engine' = engine
       /\ handle' = handle
       /\ total_translate_time' = total_translate_time]_vars

\* the token translit_sentence appends for the i-th word (gujarati_engine.py
\* 351-354), from the list translit_word returned for it
TokenOf(i) == IF wordResults[i] # <<>> THEN wordResults[i][1] ELSE Split(arg)[i]

\* C12: for a sentence with words w1..wn, translit_sentence returns n tokens
\* joined by single spaces, in the order of the words, the i-th being the first
\* candidate of translit_word(wi, 1), or wi itself when that call returned none.
C12_SentenceTokens ==
    (SentenceDone /\ result.kind = "str" /\ ~Blank(arg)) =>
        LET n == WordCount(arg)
        IN  /\ Len(wordResults) = n
            /\ \A i \in 1..n : Len(wordResults[i]) <= 1
            /\ result.val = Join([i \in 1..n |-> TokenOf(i)], <<Space>>)

\* a two-word sentence: the first word got a candidate, the second fell back
C12_Witness ==
    /\ SentenceDone
    /\ result.kind = "str"
    /\ WordCount(arg) = 2
    /\ Len(wordResults) = 2
    /\ wordResults[1] = <<<<"a", "b">>>>
    /\ wordResults[2] = <<>>
    /\ result.val = <<"a", "b", " ">> \o Split(arg)[2]

\* | num / den - thousandths / 1000 | <= 1e-3
Within(num, den, thousandths) ==
    LET diff == 1000 * num - thousandths * den
    IN  (IF diff < 0 THEN 0 - diff ELSE diff) <= den

\* the group of the numeric scenario: A = "b" with probabilityScore 0.933 and
\* dictionary probability 0.02, B = "ab" with 0.707 and 0.001
ScenarioGroup ==
    <<[text |-> <<"b">>, score |-> 933], [text |-> <<"a", " ", "b">>, score |-> 707]>>

\* C13: for the group with probabilityScore {0.933, 0.707}, dictionary
\* probabilities {0.02, 0.001} and alpha = 0.9, the ranker computes modelNorm
\* {0.569, 0.431}, dictNorm {0.952, 0.048}, combinedScore {0.607, 0.393}, each
\* within 1e-3, and returns [A, B].
C13_NumericScenario ==
    (ranked # <<>> /\ group = ScenarioGroup /\ engine.dict = ShippedStore) =>
        LET sc == ScoredCandidates(engine.dict, HypScores(group, <<>>), group)
        IN  /\ Within(sc[1].m, sc[1].M, 569)
            /\ Within(sc[2].m, sc[2].M, 431)
            /\ Within(sc[1].d, sc[1].D, 952)
            /\ Within(sc[2].d, sc[2].D, 48)
            /\ Within(sc[1].combined, 10 * sc[1].M * sc[1].D, 607)
            /\ Within(sc[2].combined, 10 * sc[2].M * sc[2].D, 393)
            /\ ranked[Len(ranked)].candidates = <<<<"b">>, <<"a", "b">>>>

\* _rescore_results has been called on the scenario's group
C13_Witness ==
    /\ ranked # <<>>
    /\ group = ScenarioGroup
    /\ engine.dict = ShippedStore
    /\ engine.rescore

\* p is the marker "__gu__ " followed by the characters of w joined by single
\* spaces
MarkedAndSpaced(p, w) ==
    /\ Len(p) = Len(LangToken) + (IF w = <<>> THEN 0 ELSE 2 * Len(w) - 1)
    /\ SubSeq(p, 1, Len(LangToken)) = LangToken
    /\ \A j \in 1..Len(w) :
          /\ p[Len(LangToken) + 2 * j - 1] = w[j]
          /\ j < Len(w) => p[Len(LangToken) + 2 * j] = Space

\* C14 as stated: _pre_process maps a word to the marker followed by its
\* characters joined by single spaces, the word being first normalized if and
\* only if the source script is Gujarati, and lower-cased when it is Roman.
C14_PreProcessAsStated ==
    (WordDone /\ ~Blank(arg)) =>
        LET w == Strip(arg)
            expected == IF SrcScript(engine) = "gujarati"
                        THEN [j \in 1..Len(w) |-> NormalizeChar(w[j])]
                        ELSE [j \in 1..Len(w) |-> LowerChar(w[j])]
        IN  Len(processed) = 1 /\ MarkedAndSpaced(processed[1], expected)

\* C14, amended: _pre_process maps a word to the marker followed by the
\* characters of the lower-cased word joined by single spaces, the word being
\* normalized first if and only if the source script is Gujarati; the word is
\* lower-cased whatever the source script.
C14_PreProcess ==
    (WordDone /\ ~Blank(arg)) =>
        LET w == Strip(arg)
            expected == IF SrcScript(engine) = "gujarati"
                        THEN [j \in 1..Len(w) |-> LowerChar(NormalizeChar(w[j]))]
                        ELSE [j \in 1..Len(w) |-> LowerChar(w[j])]
        IN  Len(processed) = 1 /\ MarkedAndSpaced(processed[1], expected)

\* a Gujarati-side word with a character the normalizer rewrites and an
\* upper-case letter
C14_Witness ==
    /\ WordDone
    /\ engine.direction = "gu2en"
    /\ arg = <<"U+0AE4", "B">>
    /\ processed = <<LangToken \o <<"U+0964", " ", "b">>>>

\* combinedScore of the i-th hypothesis of group g as the ranker is specified,
\* from the hypothesis's own probabilityScore: alpha * modelNorm +
\* (1 - alpha) * dictNorm with alpha = 0.9, times the common denominator
\* 10 * totalModel * totalDict (each total guarded against 0)
CombinedScore(store, g, i) ==
    LET M == Guarded(SumSeq([k \in 1..Len(g) |-> g[k].score]))
        D == Guarded(SumSeq([k \in 1..Len(g) |-> WordProb(store, Compact(g[k].text))]))
    IN  9 * g[i].score * D + WordProb(store, Compact(g[i].text)) * M

\* C16: with rescoring enabled the ranker returns the candidates in descending
\* combinedScore order, candidates with equal combinedScore in the order they
\* have in the input group.
C16_DescendingCombinedStable ==
    ranked # <<>> =>
        LET n == Len(group)
            out == ranked[Len(ranked)].candidates
        IN  /\ Len(out) = n
            /\ \E p \in IndexOrders(n) :
                  /\ \A i, j \in 1..n : i < j =>
                        \/ CombinedScore(engine.dict, group, p[i])
                              > CombinedScore(engine.dict, group, p[j])
                        \/ /\ CombinedScore(engine.dict, group, p[i])
                                = CombinedScore(engine.dict, group, p[j])
                           /\ p[i] < p[j]
                  /\ \A i \in 1..n : out[i] = Compact(group[p[i]].text)

\* the positions in reply of the H lines of source k, in emission order
HPositions(k) ==
    SelectSeq([i \in 1..Len(reply) |-> i],
              LAMBDA i : reply[i].tag = "H" /\ reply[i].idx = k)

\* the group's hypotheses are the H lines at the positions pos, each once, with
\* the score 2^raw, the higher score first and equal scores as emitted
GroupAsStated(H, pos) ==
    /\ Len(H) = Len(pos)
    /\ \E p \in IndexOrders(Len(pos)) :
          /\ \A q \in 1..Len(H) :
                /\ H[q].text = reply[pos[p[q]]].text
                /\ H[q].score * Pow2(0 - reply[pos[p[q]]].score) = Pow2(ScoreShift)
          /\ \A q, r \in 1..Len(H) :
                q < r => \/ reply[pos[p[q]]].score > reply[pos[p[r]]].score
                         \/ /\ reply[pos[p[q]]].score = reply[pos[p[r]]].score
                            /\ p[q] < p[r]

\* C17: whatever the order of the lines of the oracle's reply, the parser's
\* groups come in ascending source index, one per index that has an S line; each
\* holds exactly the H lines of its index, scored 2^rawScore, ordered by score
\* descending with equal scores in the order the oracle emitted them.
C17_ParserGroups ==
    post.kind = "list" =>
        /\ \A i, j \in 1..Len(parsed) : i < j => parsed[i].k < parsed[j].k
        /\ {parsed[i].k : i \in 1..Len(parsed)}
               = {reply[i].idx : i \in {j \in 1..Len(reply) : reply[j].tag = "S"}}
        /\ \A i \in 1..Len(parsed) : GroupAsStated(parsed[i].v.H, HPositions(parsed[i].k))

\* source 1's S line first, source 0's last, and between them two H lines of
\* source 0 with the lower score first
C17_Witness ==
    /\ post.kind = "list"
    /\ reply = <<SLine(1, LangToken \o <<"b">>), HLine(0, -2, <<"b">>),
                 HLine(0, -1, <<"a", " ", "b">>), SLine(0, LangToken \o <<"a">>)>>
    /\ Len(parsed) = 2
    /\ parsed[1].k = 0
    /\ parsed[1].v.H = <<[text |-> <<"a", " ", "b">>, score |-> 2],
                         [text |-> <<"b">>, score |-> 1]>>
    /\ parsed[2].v.H = <<>>

\* the number of hypotheses of the groups before the i-th
HypsBefore(i) == SumSeq([k \in 1..(i - 1) |-> Len(parsed[k].v.H)])

\* C18: the ranker neither adds, drops nor deduplicates: with rescoring on or
\* off, what is returned for each group of a reply (the groups being those of
\* different source strings) is a permutation of the compact forms of the
\* group's hypotheses, counted with their multiplicity.
C18_RankedIsPermutation ==
    (/\ post.kind = "list"
     /\ \A i, j \in 1..Len(parsed) : i # j => parsed[i].v.S # parsed[j].v.S) =>
        /\ Len(post.val) = HypsBefore(Len(parsed) + 1)
        /\ \A i \in 1..Len(parsed) :
              LET H == parsed[i].v.H
              IN  \E p \in IndexOrders(Len(H)) :
                      \A j \in 1..Len(H) :
                          post.val[HypsBefore(i) + j] = Compact(H[p[j]].text)

\* rescoring on: "a b" and "ab" collapse to one compact form, and both are
\* returned, "b" between them
C18_Witness ==
    /\ engine.rescore /\ StoreNonEmpty(engine.dict)
    /\ reply = <<SLine(0, LangToken \o <<"a">>), HLine(0, -1, <<"a", " ", "b">>),
                 HLine(0, -2, <<"a", "b">>),
                 HLine(0, -2, <<"b">>)>>
    /\ Len(parsed) = 1
    /\ post = ListResult(<<<<"a", "b">>, <<"b">>, <<"a", "b">>>>)

\* the store holds none of the compact forms of group g
TotalDictZero(store, g) == \A i \in 1..Len(g) : WordProb(store, Compact(g[i].text)) = 0

\* C19: with rescoring on and a non-empty store that holds none of the group's
\* compact forms (totalDict = 0), the candidates are returned in the group's
\* model-score descending order: no candidate comes before one whose
\* probabilityScore is higher.
C19_ModelOrderWhenNoneStored ==
    (ranked # <<>> /\ TotalDictZero(engine.dict, group)) =>
        LET n == Len(group)
            out == ranked[Len(ranked)].candidates
        IN  /\ Len(out) = n
            /\ \E p \in IndexOrders(n) :
                  /\ \A i \in 1..n : out[i] = Compact(group[p[i]].text)
                  /\ \A i, j \in 1..n : i < j => group[p[i]].score >= group[p[j]].score

\* C20: translit_word calls translate() of the Transliterator without nbest, so
\* the reply holds at most one H line for the word, and translit_word returns at
\* most one candidate, whatever the word and topk.
C20_AtMostOneCandidate ==
    (WordDone /\ handle = "Transliterator") =>
        /\ Len(HypsOfWord(output_str.lines)) <= DefaultNbest
        /\ result.kind = "list" => Len(result.val) <= 1

\* two candidates were asked for a word, and the one the reply holds is returned
C20_Witness ==
    /\ WordDone
    /\ handle = "Transliterator"
    /\ arg = <<" ", "B", "a", " ">>
    /\ topk = 2
    /\ output_str.ok
    /\ result = ListResult(<<<<"a", "b">>>>)

\* C21: when constructions run concurrently on a model directory that holds no
\* model yet and every download succeeds, every construction completes its
\* provisioning: no get_engine call raises, none finds model.zip missing because
\* another construction has extracted and removed it.
C21_ConcurrentProvisioningCompletes ==
    (threaded /\ network = "reliable") => \A t \in Threads : exc[t] = "none"
====
